---- MODULE Spec2Model ----
(***************************************************************************)
(* Distributed-memory parallel Nelder-Mead (Lee & Wiswall), as implemented *)
(* by src/LeeWiswall.cpp.  Every MPI process (worker) holds a private      *)
(* replica of the simplex, the objective vector and the index permutation; *)
(* the replicas are re-synchronised by MPI collectives.                    *)
(*                                                                         *)
(* Numbers.  Coordinates are exact rationals <<num, den>> (den > 0, lowest *)
(* terms).  Objective values are drawn from 0..MaxVal; the value 0 stands  *)
(* for a value <= 1e-6 and every positive value for one > 1e-6.  The       *)
(* objective function is an arbitrary deterministic function: its value at *)
(* a point is chosen when the point is first evaluated and remembered in   *)
(* fmemo, so every later evaluation of that point, by any worker, agrees.  *)
(***************************************************************************)
EXTENDS Integers, Sequences, FiniteSets, TLC

\* ------------------------------------------------------------------ bounds
MaxDim == 2
MaxVal == 3
MaxIter == 2
MaxFreeIter == 1
MaxPartDim == 7

Dims == 1..MaxDim
FVals == 0..MaxVal
Guesses == {1}
Budgets == 0..MaxIter

VARIABLES
    dimension,      \* d
    size,           \* W, the number of MPI processes
    max_iterations, \* argument of solve()
    fmemo,          \* the objective function, as far as it has been evaluated
    simplex,        \* simplex[w][i][j]: coordinate j of physical slot i on worker w
    obj_function_results,   \* obj_function_results[w][i]
    indices,        \* indices[w][k]
    updated,        \* updated[w]
    global_updated, \* the local of solve() that receives the all-reduced sum
    current_point,  \* current_point[w]
    best,           \* best[w]
    iter,           \* iter[w]
    feval,          \* feval[w]
    M, AR, AE, AC,  \* scratch vectors of each worker
    chunk,          \* obj_function_chunk of evaluate_all, until the gather
    recvcounts, displs, point_begin, point_end,  \* locals of evaluate_all
    heap_overrun,   \* a worker wrote past the end of obj_function_results
    total_feval,    \* result of the final MPI_Reduce on rank 0
    pc              \* pc[w]: where worker w is in solve()

vars == <<dimension, size, max_iterations, fmemo, simplex, obj_function_results,
          indices, updated, global_updated, current_point, best, iter, feval,
          M, AR, AE, AC, chunk, recvcounts, displs, point_begin, point_end,
          heap_overrun, total_feval, pc>>

Workers == 0..(size - 1)
Slots == 0..dimension
Coords == 0..(dimension - 1)

\* --------------------------------------------------------------- rationals
Abs(n) == IF n < 0 THEN 0 - n ELSE n

RECURSIVE GCD(_, _)
GCD(a, b) == IF b = 0 THEN a ELSE GCD(b, a % b)

Norm(n, d) == LET g == GCD(Abs(n), d) IN <<n \div g, d \div g>>
RInt(n) == <<n, 1>>
RAdd(x, y) == Norm(x[1] * y[2] + y[1] * x[2], x[2] * y[2])
RSub(x, y) == Norm(x[1] * y[2] - y[1] * x[2], x[2] * y[2])
RMul(x, y) == Norm(x[1] * y[1], x[2] * y[2])
RDivInt(x, n) == Norm(x[1], x[2] * n)

\* coefficients of the moves
RHO == RInt(1)
XI == RInt(2)
GAM == <<1, 2>>
SIG == <<1, 2>>

\* SIMPLEX(i, j): the row of the simplex matrix that index i addresses.  Rows are
\* addressed by physical slot; the permutation I takes no part.
SimplexRow(I, i) == i

\* ------------------------------------------------------------------ vectors
\* result = scalar1*a + scalar2*b
daxpy(scalar1, a, scalar2, b) ==
    [j \in DOMAIN a |-> RAdd(RMul(scalar1, a[j]), RMul(scalar2, b[j]))]

RECURSIVE SumRows(_, _, _, _)
SumRows(S, I, j, n) ==
    IF n = 0 THEN RInt(0) ELSE RAdd(SumRows(S, I, j, n - 1), S[SimplexRow(I, n - 1)][j])

\* a pool that reaches one slot too far
PoolSizeOffByOne(d, W) == d + 2 - W

\* number of slots the centroid averages over
PoolSize(d, W) == d + 1 - W

centroid(S, I, d, W) ==
    [j \in 0..(d - 1) |-> RDivInt(SumRows(S, I, j, PoolSize(d, W)), PoolSize(d, W))]

reflection(m, v) == daxpy(RAdd(RInt(1), RHO), m, RSub(RInt(0), RHO), v)
expansion(m, v) == daxpy(RAdd(RInt(1), RMul(RHO, XI)), m, RSub(RInt(0), RMul(RHO, XI)), v)
insidecontraction(m, v) == daxpy(RSub(RInt(1), GAM), m, GAM, v)
outsidecontraction(m, v) ==
    daxpy(RAdd(RInt(1), RMul(RHO, GAM)), m, RSub(RInt(0), RMul(RHO, GAM)), v)

\* update(vector, index): the flag, then the row
UpdateFlag(upd, vector, row) == IF upd = 0 /\ vector # row THEN 1 ELSE upd
UpdateRow(upd, vector, row) == IF UpdateFlag(upd, vector, row) # 0 THEN vector ELSE row

\* minimize(): rows 1..d move towards row 0
minimize(S, I, d) ==
    [s \in 0..d |->
        IF \E i \in 1..d : SimplexRow(I, i) = s
        THEN daxpy(SIG, S[SimplexRow(I, 0)], RSub(RInt(1), SIG), S[s])
        ELSE S[s]]

\* the slot a rank works on
OwnedSlot(d, r) == d - r

\* --------------------------------------------- init(): the initial simplex
InitSimplex(d, g) ==
    [i \in 0..d |-> [j \in 0..(d - 1) |-> IF i = j + 1 THEN RInt(g + 1) ELSE RInt(g)]]

ZeroVec(d) == [j \in 0..(d - 1) |-> RInt(0)]

\* ------------------------------------------------- sort_simplex / std::sort
\* IndexSorter: a goes before b when its objective value is smaller
IndexSorter(fv, a, b) == fv[a] < fv[b]

\* one insertion of std::sort's insertion sort (the range is short)
InsertSorted(s, x, fv) ==
    SelectSeq(s, LAMBDA e : ~IndexSorter(fv, x, e)) \o <<x>> \o
    SelectSeq(s, LAMBDA e : IndexSorter(fv, x, e))

RECURSIVE SortPrefix(_, _, _)
SortPrefix(ind, fv, k) ==
    IF k = 0 THEN << >> ELSE InsertSorted(SortPrefix(ind, fv, k - 1), ind[k - 1], fv)

\* std::sort over indices .. indices + dimension: the last entry is left out
sort_simplex_short(ind, fv, d) ==
    LET s == SortPrefix(ind, fv, d) IN [k \in 0..d |-> IF k < d THEN s[k + 1] ELSE ind[d]]

sort_simplex(ind, fv, d) ==
    LET s == SortPrefix(ind, fv, d + 1) IN [k \in 0..d |-> s[k + 1]]

\* ------------------------------------------- evaluate_all: the partitioning
PointsPerProc(d, W) == (d + 1) \div W
Rest(d, W) == (d + 1) % W

RecvCounts(d, W) ==
    [i \in 0..(W - 1) |-> IF i < Rest(d, W) THEN PointsPerProc(d, W) + 1 ELSE PointsPerProc(d, W)]

RECURSIVE DisplAt(_, _, _)
DisplAt(d, W, i) == IF i = 0 THEN 0 ELSE RecvCounts(d, W)[i - 1] + DisplAt(d, W, i - 1)

Displs(d, W) == [i \in 0..(W - 1) |-> DisplAt(d, W, i)]

\* the second branch without the remainder
PointBeginNoRest(r, d, W) ==
    IF r < Rest(d, W) THEN (PointsPerProc(d, W) + 1) * r
    ELSE PointsPerProc(d, W) * r

PointBegin(r, d, W) ==
    IF r < Rest(d, W) THEN (PointsPerProc(d, W) + 1) * r
    ELSE PointsPerProc(d, W) * r + Rest(d, W)

PointEnd(r, d, W) ==
    IF r < Rest(d, W) THEN (PointsPerProc(d, W) + 1) * (r + 1)
    ELSE PointsPerProc(d, W) * (r + 1) + Rest(d, W)

\* what the process passes as sendcount: its points_per_proc after the adjustment
SendCount(r, d, W) == IF r < Rest(d, W) THEN PointsPerProc(d, W) + 1 ELSE PointsPerProc(d, W)

\* ------------------------------------------------- the objective function
\* v can be the value of f at p
Known(memo, p, v) == p \in DOMAIN memo => memo[p] = v
Extend(memo, p, v) == [q \in (DOMAIN memo) \cup {p} |-> IF q = p THEN v ELSE memo[q]]

\* vals (a function on a set of slots) can be the values of f on the rows of S
KnownAll(memo, S, vals) ==
    /\ \A i \in DOMAIN vals : Known(memo, S[i], vals[i])
    /\ \A i, k \in DOMAIN vals : S[i] = S[k] => vals[i] = vals[k]

ExtendAll(memo, S, vals) ==
    [q \in (DOMAIN memo) \cup {S[i] : i \in DOMAIN vals} |->
        IF q \in DOMAIN memo THEN memo[q]
        ELSE vals[CHOOSE i \in DOMAIN vals : S[i] = q]]

\* --------------------------------------------------------- MPI collectives
\* value number k of the gathered sequence, as receiver w lays it out
GatheredValue(w, k) ==
    LET r == CHOOSE q \in Workers :
                 displs[w][q] <= k /\ k < displs[w][q] + recvcounts[w][q]
    IN  chunk[r][k - displs[w][r]]

\* MPI_Allgatherv into &obj_function_results[indices[0]]: the entries inside the array
AllgathervResults(w) ==
    LET base == indices[w][0] IN
    [e \in Slots |-> IF e >= base THEN GatheredValue(w, e - base)
                     ELSE obj_function_results[w][e]]

\* ... and whether the receive buffer reaches past the end of the array
AllgathervOverrun(w) == indices[w][0] + dimension > dimension

\* broadcast(): the two all-gathers
BorderSimplex(sx, ind, cp) == [i \in Workers |-> sx[i][SimplexRow(ind[i], cp[i])]]
BorderFval(fv, ind, cp) == [i \in Workers |-> fv[i][ind[i][cp[i]]]]

\* an exchange that starts one slot too low
BorderBaseLow(d, W) == d - W

\* first slot the exchange writes
BorderBase(d, W) == d + 1 - W

\* broadcast(): the two assembly loops on one worker
AssembleSimplex(S, I, bs) ==
    [s \in Slots |->
        LET hit == {i \in Workers : SimplexRow(I, BorderBase(dimension, size) + i) = s} IN
        IF hit = {} THEN S[s]
        ELSE bs[CHOOSE i \in hit : \A k \in hit : k <= i]]

AssembleFval(F, I, bf) ==
    [e \in Slots |->
        LET hit == {i \in Workers : I[BorderBase(dimension, size) + i] = e} IN
        IF hit = {} THEN F[e]
        ELSE bf[CHOOSE i \in hit : \A k \in hit : k <= i]]

BroadcastSimplex(sx, ind, cp) ==
    [w \in Workers |-> AssembleSimplex(sx[w], ind[w], BorderSimplex(sx, ind, cp))]
BroadcastFval(fv, ind, cp) ==
    [w \in Workers |-> AssembleFval(fv[w], ind[w], BorderFval(fv, ind, cp))]

RECURSIVE SumUpTo(_, _)
SumUpTo(f, n) == IF n < 0 THEN 0 ELSE f[n] + SumUpTo(f, n - 1)

\* ------------------------------------------------------------------- Init
InitWith(d, W, g, N, start) ==
    /\ dimension = d
    /\ size = W
    /\ max_iterations = N
    /\ fmemo = [p \in {} |-> 0]
    /\ simplex = [w \in 0..(W - 1) |-> InitSimplex(d, g)]
    /\ obj_function_results = [w \in 0..(W - 1) |-> [i \in 0..d |-> 0]]
    /\ indices = [w \in 0..(W - 1) |-> [i \in 0..d |-> i]]
    /\ updated = [w \in 0..(W - 1) |-> 0]
    /\ global_updated = [w \in 0..(W - 1) |-> 0]
    /\ current_point = [w \in 0..(W - 1) |-> 0]
    /\ best = [w \in 0..(W - 1) |-> 0]
    /\ iter = [w \in 0..(W - 1) |-> 0]
    /\ feval = [w \in 0..(W - 1) |-> 0]
    /\ M = [w \in 0..(W - 1) |-> ZeroVec(d)]
    /\ AR = [w \in 0..(W - 1) |-> ZeroVec(d)]
    /\ AE = [w \in 0..(W - 1) |-> ZeroVec(d)]
    /\ AC = [w \in 0..(W - 1) |-> ZeroVec(d)]
    /\ chunk = [w \in 0..(W - 1) |-> [j \in {} |-> 0]]
    /\ recvcounts = [w \in 0..(W - 1) |-> [j \in {} |-> 0]]
    /\ displs = [w \in 0..(W - 1) |-> [j \in {} |-> 0]]
    /\ point_begin = [w \in 0..(W - 1) |-> 0]
    /\ point_end = [w \in 0..(W - 1) |-> 0]
    /\ heap_overrun = [w \in 0..(W - 1) |-> FALSE]
    /\ total_feval = 0
    /\ pc = [w \in 0..(W - 1) |-> start]

Init ==
    \E d \in Dims : \E W \in 1..d : \E g \in Guesses : \E N \in Budgets :
        InitWith(d, W, g, N, "eval0")

\* ------------------------------------------------------------ evaluate_all
\* lines 296-334: the partition and the evaluation of this worker's points
EvaluateChunk(w) ==
    /\ pc[w] \in {"eval0", "eval"}
    /\ LET b == PointBegin(w, dimension, size)
           e == PointEnd(w, dimension, size)
           n == SendCount(w, dimension, size)
           rows == [i \in b..(e - 1) |-> simplex[w][SimplexRow(indices[w], i)]]
       IN
       \E vals \in [b..(e - 1) -> FVals] :
          /\ KnownAll(fmemo, rows, vals)
          /\ fmemo' = ExtendAll(fmemo, rows, vals)
          /\ chunk' = [chunk EXCEPT ![w] = [j \in 0..(n - 1) |-> vals[b + j]]]
          /\ feval' = [feval EXCEPT ![w] = @ + (e - b)]
          /\ point_begin' = [point_begin EXCEPT ![w] = b]
          /\ point_end' = [point_end EXCEPT ![w] = e]
    /\ recvcounts' = [recvcounts EXCEPT ![w] = RecvCounts(dimension, size)]
    /\ displs' = [displs EXCEPT ![w] = Displs(dimension, size)]
    /\ pc' = [pc EXCEPT ![w] = IF pc[w] = "eval0" THEN "gather0" ELSE "gather"]
    /\ UNCHANGED <<dimension, size, max_iterations, simplex, obj_function_results,
                   indices, updated, global_updated, current_point, best, iter,
                   M, AR, AE, AC, heap_overrun, total_feval>>

\* lines 337-340: MPI_Allgatherv, once every worker has entered it.  A write past
\* the end of obj_function_results corrupts the heap: the process either goes on
\* or is aborted by the allocator.
Allgatherv ==
    /\ \/ \A w \in Workers : pc[w] = "gather0"
       \/ \A w \in Workers : pc[w] = "gather"
    /\ obj_function_results' = [w \in Workers |-> AllgathervResults(w)]
    /\ heap_overrun' = [w \in Workers |-> heap_overrun[w] \/ AllgathervOverrun(w)]
    /\ chunk' = [w \in Workers |-> [j \in {} |-> 0]]
    /\ \E outcome \in [Workers -> {"goes on", "aborted"}] :
          /\ \A w \in Workers : outcome[w] = "aborted" => AllgathervOverrun(w)
          /\ pc' = [w \in Workers |->
                      IF outcome[w] = "aborted" THEN "aborted"
                      ELSE IF pc[w] = "gather0" THEN "sort0" ELSE "sort"]
    /\ UNCHANGED <<dimension, size, max_iterations, fmemo, simplex, indices, updated,
                   global_updated, current_point, best, iter, feval, M, AR, AE, AC,
                   recvcounts, displs, point_begin, point_end, total_feval>>

\* --------------------------------------------------- sort, best, loop test
\* the budget test with <= for <
LoopConditionOffByOne(b, it, N) == b > 0 /\ (N <= 0 \/ it <= N)

\* the condition of the while loop
LoopCondition(b, it, N) == b > 0 /\ (N <= 0 \/ it < N)

\* lines 80-85 and 162-170, 85: sort, best, iter++ and the test of the loop
SortAndTest(w) ==
    /\ pc[w] \in {"sort0", "sort"}
    /\ LET ind == sort_simplex(indices[w], obj_function_results[w], dimension)
           b == obj_function_results[w][ind[0]]
           it == IF pc[w] = "sort" THEN iter[w] + 1 ELSE iter[w]
       IN
       /\ indices' = [indices EXCEPT ![w] = ind]
       /\ best' = [best EXCEPT ![w] = b]
       /\ iter' = [iter EXCEPT ![w] = it]
       /\ pc' = [pc EXCEPT ![w] =
                   IF LoopCondition(b, it, max_iterations) THEN "local" ELSE "reduce"]
    /\ UNCHANGED <<dimension, size, max_iterations, fmemo, simplex, obj_function_results,
                   updated, global_updated, current_point, feval, M, AR, AE, AC,
                   chunk, recvcounts, displs, point_begin, point_end,
                   heap_overrun, total_feval>>

\* ------------------------------------------ the local decision, lines 87-150
\* the four conditions of the if-else chain, for the value fAR at the reflection
\* the first condition without its upper bound
TakesReflectionNoUpper(w, fAR) == best[w] <= fAR

TakesReflection(w, fAR) ==
    /\ best[w] <= fAR
    /\ fAR <= obj_function_results[w][indices[w][OwnedSlot(dimension, w) - 1]]

TakesExpansion(w, fAR) == ~TakesReflection(w, fAR) /\ fAR < best[w]

\* the third condition with <= for < on the owned entry
TakesOutsideLoose(w, fAR) ==
    /\ ~TakesReflection(w, fAR)
    /\ ~TakesExpansion(w, fAR)
    /\ obj_function_results[w][indices[w][OwnedSlot(dimension, w) - 1]] <= fAR
    /\ fAR <= obj_function_results[w][indices[w][OwnedSlot(dimension, w)]]

TakesOutside(w, fAR) ==
    /\ ~TakesReflection(w, fAR)
    /\ ~TakesExpansion(w, fAR)
    /\ obj_function_results[w][indices[w][OwnedSlot(dimension, w) - 1]] <= fAR
    /\ fAR < obj_function_results[w][indices[w][OwnedSlot(dimension, w)]]

TakesInside(w, fAR) ==
    ~TakesReflection(w, fAR) /\ ~TakesExpansion(w, fAR) /\ ~TakesOutside(w, fAR)

\* the worker is at the top of the loop body; a run without a budget is followed
\* for MaxFreeIter iterations
AtLocal(w) == pc[w] = "local" /\ (max_iterations <= 0 => iter[w] < MaxFreeIter)

\* the state a worker leaves its local decision with
LocalResult(w, row, val, upd, m, ar, ae, ac, memo, n) ==
    /\ simplex' = [simplex EXCEPT
                       ![w][SimplexRow(indices[w], OwnedSlot(dimension, w))] = row]
    /\ obj_function_results' =
          [obj_function_results EXCEPT ![w][indices[w][OwnedSlot(dimension, w)]] = val]
    /\ updated' = [updated EXCEPT ![w] = upd]
    /\ current_point' = [current_point EXCEPT ![w] = OwnedSlot(dimension, w)]
    /\ M' = [M EXCEPT ![w] = m]
    /\ AR' = [AR EXCEPT ![w] = ar]
    /\ AE' = [AE EXCEPT ![w] = ae]
    /\ AC' = [AC EXCEPT ![w] = ac]
    /\ fmemo' = memo
    /\ feval' = [feval EXCEPT ![w] = @ + n]
    /\ pc' = [pc EXCEPT ![w] = "allreduce"]
    /\ UNCHANGED <<dimension, size, max_iterations, indices, global_updated, best, iter,
                   chunk, recvcounts, displs, point_begin, point_end,
                   heap_overrun, total_feval>>

\* lines 100-103: accept the reflection point
AcceptReflection(w) ==
    /\ AtLocal(w)
    /\ LET cp == OwnedSlot(dimension, w)
           row == simplex[w][SimplexRow(indices[w], cp)]
           m == centroid(simplex[w], indices[w], dimension, size)
           ar == reflection(m, row)
       IN
       \E fAR \in FVals :
          /\ Known(fmemo, ar, fAR)
          /\ TakesReflection(w, fAR)
          /\ LocalResult(w, UpdateRow(0, ar, row), fAR, UpdateFlag(0, ar, row),
                         m, ar, AE[w], AC[w], Extend(fmemo, ar, fAR), 1)

\* lines 104-117: expansion, else the reflection point
Expansion(w) ==
    /\ AtLocal(w)
    /\ LET cp == OwnedSlot(dimension, w)
           row == simplex[w][SimplexRow(indices[w], cp)]
           m == centroid(simplex[w], indices[w], dimension, size)
           ar == reflection(m, row)
           ae == expansion(m, row)
       IN
       \E fAR \in FVals : \E fAE \in FVals :
          /\ Known(fmemo, ar, fAR)
          /\ Known(Extend(fmemo, ar, fAR), ae, fAE)
          /\ TakesExpansion(w, fAR)
          /\ LET acc == IF fAE < fAR THEN ae ELSE ar
                 val == IF fAE < fAR THEN fAE ELSE fAR
             IN LocalResult(w, UpdateRow(0, acc, row), val, UpdateFlag(0, acc, row),
                            m, ar, ae, AC[w], Extend(Extend(fmemo, ar, fAR), ae, fAE), 2)

\* lines 118-133: outside contraction, else AR replaces the row without the flag
OutsideContraction(w) ==
    /\ AtLocal(w)
    /\ LET cp == OwnedSlot(dimension, w)
           row == simplex[w][SimplexRow(indices[w], cp)]
           cur == obj_function_results[w][indices[w][cp]]
           m == centroid(simplex[w], indices[w], dimension, size)
           ar == reflection(m, row)
           ac == outsidecontraction(m, row)
       IN
       \E fAR \in FVals : \E fAC \in FVals :
          /\ Known(fmemo, ar, fAR)
          /\ Known(Extend(fmemo, ar, fAR), ac, fAC)
          /\ TakesOutside(w, fAR)
          /\ LET newrow == IF fAC <= fAR THEN UpdateRow(0, ac, row)
                           ELSE IF fAR < cur THEN ar ELSE row
                 val == IF fAC <= fAR THEN fAC ELSE IF fAR < cur THEN fAR ELSE cur
                 upd == IF fAC <= fAR THEN UpdateFlag(0, ac, row) ELSE 0
             IN LocalResult(w, newrow, val, upd, m, ar, AE[w], ac,
                            Extend(Extend(fmemo, ar, fAR), ac, fAC), 2)

\* lines 134-150: inside contraction, else AR replaces the row without the flag
InsideContraction(w) ==
    /\ AtLocal(w)
    /\ LET cp == OwnedSlot(dimension, w)
           row == simplex[w][SimplexRow(indices[w], cp)]
           cur == obj_function_results[w][indices[w][cp]]
           m == centroid(simplex[w], indices[w], dimension, size)
           ar == reflection(m, row)
           ac == insidecontraction(m, row)
       IN
       \E fAR \in FVals : \E fAC \in FVals :
          /\ Known(fmemo, ar, fAR)
          /\ Known(Extend(fmemo, ar, fAR), ac, fAC)
          /\ TakesInside(w, fAR)
          /\ LET newrow == IF fAC < cur THEN UpdateRow(0, ac, row)
                           ELSE IF fAR < cur THEN ar ELSE row
                 val == IF fAC < cur THEN fAC ELSE IF fAR < cur THEN fAR ELSE cur
                 upd == IF fAC < cur THEN UpdateFlag(0, ac, row) ELSE 0
             IN LocalResult(w, newrow, val, upd, m, ar, AE[w], ac,
                            Extend(Extend(fmemo, ar, fAR), ac, fAC), 2)

\* -------------------------------------------- lines 152-159: the all-reduce
Allreduce ==
    /\ \A w \in Workers : pc[w] = "allreduce"
    /\ LET sum == SumUpTo(updated, size - 1) IN
       /\ global_updated' = [w \in Workers |-> sum]
       /\ pc' = [w \in Workers |-> IF sum = 0 THEN "minimize" ELSE "bcast"]
    /\ UNCHANGED <<dimension, size, max_iterations, fmemo, simplex, obj_function_results,
                   indices, updated, current_point, best, iter, feval, M, AR, AE, AC,
                   chunk, recvcounts, displs, point_begin, point_end,
                   heap_overrun, total_feval>>

\* line 155, lines 265-269
Minimize(w) ==
    /\ pc[w] = "minimize"
    /\ simplex' = [simplex EXCEPT ![w] = minimize(simplex[w], indices[w], dimension)]
    /\ pc' = [pc EXCEPT ![w] = "eval"]
    /\ UNCHANGED <<dimension, size, max_iterations, fmemo, obj_function_results,
                   indices, updated, global_updated, current_point, best, iter, feval,
                   M, AR, AE, AC, chunk, recvcounts, displs, point_begin, point_end,
                   heap_overrun, total_feval>>

\* line 158, lines 239-263: the exchange, once every worker has entered it
Broadcast ==
    /\ \A w \in Workers : pc[w] = "bcast"
    /\ simplex' = BroadcastSimplex(simplex, indices, current_point)
    /\ obj_function_results' = BroadcastFval(obj_function_results, indices, current_point)
    /\ pc' = [w \in Workers |-> "sort"]
    /\ UNCHANGED <<dimension, size, max_iterations, fmemo, indices, updated,
                   global_updated, current_point, best, iter, feval, M, AR, AE, AC,
                   chunk, recvcounts, displs, point_begin, point_end,
                   heap_overrun, total_feval>>

\* lines 174-175: the final MPI_Reduce of the evaluation counts
Reduce ==
    /\ \A w \in Workers : pc[w] = "reduce"
    /\ total_feval' = SumUpTo(feval, size - 1)
    /\ pc' = [w \in Workers |-> "done"]
    /\ UNCHANGED <<dimension, size, max_iterations, fmemo, simplex, obj_function_results,
                   indices, updated, global_updated, current_point, best, iter, feval,
                   M, AR, AE, AC, chunk, recvcounts, displs, point_begin, point_end,
                   heap_overrun>>

Next ==
    \/ \E w \in Workers : EvaluateChunk(w)
    \/ Allgatherv
    \/ \E w \in Workers : SortAndTest(w)
    \/ \E w \in Workers : AcceptReflection(w)
    \/ \E w \in Workers : Expansion(w)
    \/ \E w \in Workers : OutsideContraction(w)
    \/ \E w \in Workers : InsideContraction(w)
    \/ Allreduce
    \/ \E w \in Workers : Minimize(w)
    \/ Broadcast
    \/ Reduce

Spec == Init /\ [][Next]_vars

\* ------------------------------------- the partition of evaluate_all, alone
\* Every worker computes the locals of evaluate_all (lines 296-326) for a
\* dimension and a number of workers drawn from a wider range.
PartInit ==
    \E d \in 1..MaxPartDim : \E W \in 1..d : InitWith(d, W, 1, 0, "part")

Partition(w) ==
    /\ pc[w] = "part"
    /\ recvcounts' = [recvcounts EXCEPT ![w] = RecvCounts(dimension, size)]
    /\ displs' = [displs EXCEPT ![w] = Displs(dimension, size)]
    /\ point_begin' = [point_begin EXCEPT ![w] = PointBegin(w, dimension, size)]
    /\ point_end' = [point_end EXCEPT ![w] = PointEnd(w, dimension, size)]
    /\ pc' = [pc EXCEPT ![w] = "partdone"]
    /\ UNCHANGED <<dimension, size, max_iterations, fmemo, simplex, obj_function_results,
                   indices, updated, global_updated, current_point, best, iter, feval,
                   M, AR, AE, AC, chunk, heap_overrun, total_feval>>

PartNext == \E w \in Workers : Partition(w)

SpecPart == PartInit /\ [][PartNext]_vars

\* ================================================================== claims
SameReplica(w1, w2) ==
    /\ simplex[w1] = simplex[w2]
    /\ obj_function_results[w1] = obj_function_results[w2]

AfterExchange(w) == pc[w] = "sort" /\ global_updated[w] # 0
AfterShrink(w) == pc[w] = "sort" /\ global_updated[w] = 0
EndOfIteration(w) == pc[w] \in {"local", "reduce", "done"} /\ iter[w] >= 1
SortObserved(w) == pc[w] \in {"local", "reduce", "done"}

\* C1: after every exchange step all workers hold identical replicas (all slot
\* coordinates and all objective-vector entries).
C1_ExchangeReplicasIdentical ==
    \A w1 \in Workers : \A w2 \in Workers :
        AfterExchange(w1) /\ AfterExchange(w2) => SameReplica(w1, w2)

\* C2: after every global shrink and re-evaluation all workers hold identical
\* replicas.
C2_ShrinkReplicasIdentical ==
    \A w1 \in Workers : \A w2 \in Workers :
        AfterShrink(w1) /\ AfterShrink(w2) => SameReplica(w1, w2)

\* C3: at the end of every iteration, on every worker, objective entry i is f of
\* the coordinates stored in physical slot i.
C3_ValuesParallelToSlots ==
    \A w \in Workers : EndOfIteration(w) =>
        \A i \in Slots :
            /\ simplex[w][i] \in DOMAIN fmemo
            /\ obj_function_results[w][i] = fmemo[simplex[w][i]]

\* C4: best never increases from the end of one iteration to the end of the next.
C4_BestNonIncreasing ==
    [][\A w \in Workers : pc[w] = "sort" => best'[w] <= best[w]]_vars

\* C5: a second exchange right after an exchange changes no slot and no objective
\* entry on any worker.
C5_ExchangeIdempotent ==
    (\A w \in Workers : AfterExchange(w)) =>
        /\ BroadcastSimplex(simplex, indices, current_point) = simplex
        /\ BroadcastFval(obj_function_results, indices, current_point) = obj_function_results

\* C6: when minimize() runs, objective(0) is objective(indices[0]), the minimum of
\* the objective vector.
C6_PivotIsBest ==
    \A w \in Workers : pc[w] = "minimize" =>
        /\ obj_function_results[w][0] = obj_function_results[w][indices[w][0]]
        /\ \A i \in Slots : obj_function_results[w][0] <= obj_function_results[w][i]

PointRange(w) == point_begin[w]..(point_end[w] - 1)
Partitioned(w) == pc[w] = "partdone"

C8_PartitionComplete ==
    /\ \A r \in Workers : Partitioned(r) =>
          /\ point_end[r] - point_begin[r] = recvcounts[r][r]
          /\ point_begin[r] = displs[r][r]
          /\ PointRange(r) \subseteq Slots
          /\ IF r < (dimension + 1) % size
             THEN point_end[r] - point_begin[r] = ((dimension + 1) \div size) + 1
             ELSE point_end[r] - point_begin[r] = (dimension + 1) \div size
          /\ SumUpTo(recvcounts[r], size - 1) = dimension + 1
    /\ \A r1 \in Workers : \A r2 \in Workers :
          Partitioned(r1) /\ Partitioned(r2) /\ r1 # r2 =>
              PointRange(r1) \cap PointRange(r2) = {}
    /\ (\A r \in Workers : Partitioned(r)) =>
          UNION {PointRange(r) : r \in Workers} = Slots

\* every worker has its range, W >= 3 and (d+1) mod W is neither 0 nor W-1
C8_Witness ==
    /\ \A r \in Workers : Partitioned(r)
    /\ size >= 3
    /\ (dimension + 1) % size >= 1
    /\ (dimension + 1) % size < size - 1

\* C9: worker r works on slot d - r in every iteration; the owned slots are
\* distinct, are exactly d+1-W..d and lie outside the non-empty centroid pool;
\* with W = d the centroid is the row of slot 0.
InIteration(w) == pc[w] \in {"allreduce", "minimize", "eval", "gather", "bcast", "sort"}

C9_OwnershipPartition ==
    /\ PoolSize(dimension, size) >= 1
    /\ \A w \in Workers : InIteration(w) =>
          /\ current_point[w] = dimension - w
          /\ current_point[w] >= PoolSize(dimension, size)
          /\ current_point[w] <= dimension
          /\ size = dimension => M[w] = simplex[w][0]
    /\ \A w1 \in Workers : \A w2 \in Workers :
          InIteration(w1) /\ InIteration(w2) /\ w1 # w2 => current_point[w1] # current_point[w2]
    /\ (\A w \in Workers : InIteration(w)) =>
          {current_point[w] : w \in Workers} = (dimension + 1 - size)..dimension

\* every worker has made its local decision and W = d >= 2
C9_Witness ==
    /\ size = dimension
    /\ size >= 2
    /\ \A w \in Workers : pc[w] = "allreduce"

\* C10: a worker is inside the loop only while best > 1e-6 and the budget, if
\* there is one, is not used up; it never performs more than N > 0 iterations;
\* when it has left the loop, best <= 1e-6 or exactly N > 0 iterations were made.
LeftLoop(w) == pc[w] \in {"reduce", "done"}
InLoop(w) == pc[w] \in {"local", "allreduce", "minimize", "eval", "gather", "bcast", "sort"}

LocalStep(w) == pc[w] = "local" /\ pc'[w] = "allreduce"

\* C11: a worker whose local decision changed its replica (a slot's coordinates
\* or an objective entry) enters the all-reduce with the changed flag 1, so a
\* global shrink runs only when no worker changed anything.
C11_ShrinkOnlyOnStagnation ==
    [][\A w \in Workers :
          LocalStep(w) /\ (simplex'[w] # simplex[w]
                           \/ obj_function_results'[w] # obj_function_results[w])
              => updated'[w] = 1]_vars

\* C12: every partitioned evaluation writes entries 0..d of the objective vector
\* on every worker, entry i receiving the value computed for slot i, and writes
\* no entry outside 0..d.
GatherStep == (\A w \in Workers : pc[w] \in {"gather0", "gather"}) /\ pc' # pc

C12_EvaluationWritesAllEntries ==
    [][GatherStep =>
          \A w \in Workers :
              /\ \A i \in Slots : obj_function_results'[w][i] = GatheredValue(w, i)
              /\ ~heap_overrun'[w]]_vars

\* C13: in its local decision worker r changes only its owned physical slot d - r:
\* the coordinates and the objective entry of every other slot stay as they were.
C13_LocalFrame ==
    [][\A w \in Workers : LocalStep(w) =>
          \A i \in Slots : i # dimension - w =>
              /\ simplex'[w][i] = simplex[w][i]
              /\ obj_function_results'[w][i] = obj_function_results[w][i]]_vars

\* C14: after an exchange, on every worker, slot d - r holds the coordinates and
\* the objective value that worker r held for its slot d - r before the exchange.
ExchangeStep == (\A w \in Workers : pc[w] = "bcast") /\ pc' # pc

C14_ExchangeKeepsOwnedSlots ==
    [][ExchangeStep =>
          \A w \in Workers : \A r \in Workers :
              /\ simplex'[w][dimension - r] = simplex[r][dimension - r]
              /\ obj_function_results'[w][dimension - r] =
                     obj_function_results[r][dimension - r]]_vars

\* the vector and the value a local step of w accepted through update(), if any
AcceptedBy(w, vec, val) ==
    \/ AcceptReflection(w) /\ vec = AR'[w] /\ val = fmemo'[AR'[w]]
    \/ /\ Expansion(w)
       /\ IF fmemo'[AE'[w]] < fmemo'[AR'[w]]
          THEN vec = AE'[w] /\ val = fmemo'[AE'[w]]
          ELSE vec = AR'[w] /\ val = fmemo'[AR'[w]]
    \/ /\ OutsideContraction(w)
       /\ fmemo'[AC'[w]] <= fmemo'[AR'[w]]
       /\ vec = AC'[w] /\ val = fmemo'[AC'[w]]
    \/ /\ InsideContraction(w)
       /\ fmemo'[AC'[w]] < obj_function_results[w][indices[w][dimension - w]]
       /\ vec = AC'[w] /\ val = fmemo'[AC'[w]]

Candidates(w) == {AR'[w], AE'[w], AC'[w]}

\* C15: when a worker accepts a candidate, its owned slot holds the accepted
\* vector, the slot's objective entry holds the candidate's value and the changed
\* flag is 1 at the all-reduce; the flag is 0 when no candidate was accepted.
C15_AcceptWritesSlotValueFlag ==
    [][\A w \in Workers : LocalStep(w) =>
          /\ \A vec \in Candidates(w) : \A val \in FVals :
                AcceptedBy(w, vec, val) =>
                    /\ simplex'[w][dimension - w] = vec
                    /\ obj_function_results'[w][dimension - w] = val
                    /\ updated'[w] = 1
          /\ (~\E vec \in Candidates(w) : \E val \in FVals : AcceptedBy(w, vec, val))
                => updated'[w] = 0]_vars

\* the parts of C15 about the coordinates and the flag alone
C15_CoordinatesAndFlag ==
    [][\A w \in Workers : LocalStep(w) =>
          /\ \A vec \in Candidates(w) : \A val \in FVals :
                AcceptedBy(w, vec, val) =>
                    /\ simplex'[w][dimension - w] = vec
                    /\ updated'[w] = 1
          /\ (~\E vec \in Candidates(w) : \E val \in FVals : AcceptedBy(w, vec, val))
                => updated'[w] = 0]_vars

\* C16: the workers run in lockstep: they get the same flag sum, take the same
\* branch, hold the same best after the sort of an iteration, leave the loop
\* after the same iteration, and none is at the final reduction while a peer is
\* still in the loop.
C16_Lockstep ==
    \A w1 \in Workers : \A w2 \in Workers :
        /\ ~(pc[w1] = "reduce" /\ pc[w2] \in {"local", "allreduce"})
        /\ pc[w1] \in {"minimize", "eval", "gather", "bcast"}
           /\ pc[w2] \in {"minimize", "eval", "gather", "bcast"}
              => global_updated[w1] = global_updated[w2]
        /\ SortObserved(w1) /\ SortObserved(w2) /\ iter[w1] = iter[w2]
              => best[w1] = best[w2]

\* the part of C16 about the all-reduce alone
C16_SameBranch ==
    \A w1 \in Workers : \A w2 \in Workers :
        pc[w1] \in {"minimize", "eval", "gather", "bcast"}
        /\ pc[w2] \in {"minimize", "eval", "gather", "bcast"}
            => global_updated[w1] = global_updated[w2]

\* C17: the coordinates of slot 0 never change; the coordinates of the pool slots
\* 1..d-W change only in minimize().
C17_PivotAndPoolStable ==
    [][\A w \in Workers :
          /\ simplex'[w][0] = simplex[w][0]
          /\ \A i \in 1..(dimension - size) :
                simplex'[w][i] # simplex[w][i] => pc[w] = "minimize"]_vars

\* a worker at the end of its second iteration, after an exchange, with a pool
\* slot that an earlier shrink has moved
C17_Witness ==
    \E w \in Workers :
        /\ dimension > size
        /\ iter[w] >= 2
        /\ global_updated[w] # 0
        /\ simplex[w][1] # InitSimplex(dimension, 1)[1]
        /\ simplex[w][0] = InitSimplex(dimension, 1)[0]

\* C18: every objective entry a local decision writes gets a value that is not
\* larger than the one it held at the start of the iteration.
C18_LocalNeverWorsens ==
    [][\A w \in Workers : LocalStep(w) =>
          \A e \in Slots : obj_function_results'[w][e] <= obj_function_results[w][e]]_vars

\* a worker that accepted a candidate in its second iteration
C18_Witness ==
    \E w \in Workers : pc[w] = "allreduce" /\ updated[w] = 1 /\ iter[w] >= 1

\* C19: the inside-contraction branch is entered only with f(AR) >= the value of
\* the owned entry, so its AR replacement never happens; in the outside branch
\* with f(AC) > f(AR) the AR replacement always happens.
C19_FallbackGuards ==
    [][\A w \in Workers :
          /\ InsideContraction(w) =>
                /\ fmemo'[AR'[w]] >= obj_function_results[w][indices[w][dimension - w]]
                /\ updated'[w] = 0 =>
                      /\ simplex'[w] = simplex[w]
                      /\ obj_function_results'[w] = obj_function_results[w]
          /\ OutsideContraction(w) /\ fmemo'[AC'[w]] > fmemo'[AR'[w]] =>
                /\ simplex'[w][SimplexRow(indices[w], dimension - w)] = AR'[w]
                /\ obj_function_results'[w][indices[w][dimension - w]] = fmemo'[AR'[w]]
                /\ updated'[w] = 0]_vars

\* a worker whose row was replaced by AR without the flag
C19_Witness ==
    \E w \in Workers :
        /\ pc[w] = "allreduce"
        /\ updated[w] = 0
        /\ simplex[w][dimension - w] = AR[w]

====
